---- MODULE Spec2Model ----
(***************************************************************************)
(* tauri-plugin-keyring: the host binding adapters (src/desktop.rs and     *)
(* src/mobile.rs).  init selects a keyring_core credential store, installs *)
(* it as the process-wide default store and returns a Keyring handle; the  *)
(* Keyring methods delegate to crate::implementation::KeyringImplementation*)
(* (not among the source files; modelled from the specification).          *)
(***************************************************************************)
EXTENDS Naturals, Sequences, FiniteSets

\* Number of init calls explored in one process lifetime.
MaxInits == 2

NONE == "none"
NA == "-"

\* cfg(target_os): desktop.rs is compiled for desktop targets, mobile.rs for
\* mobile ones.  freebsd stands for a desktop target that none of the
\* #[cfg(target_os = ...)] blocks of desktop.rs names.
DesktopTargets == {"windows", "macos", "linux", "freebsd"}
MobileTargets == {"android", "ios"}
NativeDesktop == {"windows", "macos", "linux"}

Users == {"alice"}
CredentialType == {"Password", "Token"}
CredentialValue == {"v1", "v2"}
ServiceNames == {"acme-app"}
Identities == Users \X CredentialType
\* Diagnostic texts a backend error can carry, and a host registration error.
Diagnostics == {"access denied", "no ndk context"}

VARIABLES
    target,       \* compile-time target_os of the build
    envMock,      \* std::env::var("KEYRING_USE_MOCK").is_ok()
    active,       \* keyring_core default store: NONE or the kind installed
    creds,        \* entries held by the store behind `active`
    serviceName,  \* process-wide namespace set by initialize_service
    haveHandle,   \* some init call has returned Ok(Keyring)
    inits,        \* number of init calls made so far
    last,         \* the last call: its arguments, inputs and result
    hist,         \* history of each identity's calls: "never" set, "deleted"
                  \* or the value of its last successful set
    stale         \* identities whose last set was made before the latest
                  \* set_default_store call

vars == <<target, envMock, active, creds, serviceName, haveHandle, inits,
          last, hist, stale>>

----------------------------------------------------------------------------
(* Results *)

Result(res, err, out, store) ==
    [res |-> res, err |-> err, out |-> out, creds |-> store]

Outcome(res, err, msg, constructed, installed, handle) ==
    [res |-> res, err |-> err, msg |-> msg, constructed |-> constructed,
     installed |-> installed, handle |-> handle]

NoCall ==
    [op |-> "start", user |-> NA, type |-> NA, value |-> NA, res |-> NA,
     err |-> NA, out |-> NA, msg |-> NA, constructed |-> {},
     installed |-> <<>>, handle |-> FALSE, ok |-> TRUE, diag |-> NA,
     before |-> NONE, prev |-> NA, ready |-> FALSE, fault |-> FALSE]

----------------------------------------------------------------------------
(* crate::implementation::KeyringImplementation and the keyring_core store *)

Ready == active # NONE /\ serviceName # NONE

make_key(u, t) == <<serviceName, u, t>>

Stored(k) == {e.value : e \in {x \in creds : x.key = k}}

Impl_initialize_service(name) ==
    IF serviceName = NONE
    THEN [res |-> "Ok", err |-> NA, name |-> name]
    ELSE [res |-> "Err", err |-> "AlreadyInitialized", name |-> serviceName]

\* `fault` is whether the backend call of this operation fails (permission
\* denied, store unavailable, malformed entry): the operation then returns
\* PlatformError and has no side effect.
Impl_set(u, t, v, fault) ==
    IF ~Ready
    THEN Result("Err", "Uninitialized", NA, creds)
    ELSE IF fault
    THEN Result("Err", "PlatformError", NA, creds)
    ELSE Result("Ok", NA, NA,
                {e \in creds : e.key # make_key(u, t)}
                    \cup {[key |-> make_key(u, t), value |-> v]})

Impl_get(u, t, fault) ==
    IF ~Ready
    THEN Result("Err", "Uninitialized", NA, creds)
    ELSE IF fault
    THEN Result("Err", "PlatformError", NA, creds)
    ELSE IF Stored(make_key(u, t)) = {}
    THEN Result("Err", "NotFound", NA, creds)
    ELSE Result("Ok", NA, CHOOSE v \in Stored(make_key(u, t)) : TRUE, creds)

Impl_delete(u, t, fault) ==
    IF ~Ready
    THEN Result("Err", "Uninitialized", NA, creds)
    ELSE IF fault
    THEN Result("Err", "PlatformError", NA, creds)
    ELSE IF Stored(make_key(u, t)) = {}
    THEN Result("Err", "NotFound", NA, creds)
    ELSE Result("Ok", NA, NA, {e \in creds : e.key # make_key(u, t)})

Impl_exists(u, t, fault) ==
    IF ~Ready
    THEN Result("Err", "Uninitialized", NA, creds)
    ELSE IF fault
    THEN Result("Err", "PlatformError", NA, creds)
    ELSE Result("Ok", NA,
                IF Stored(make_key(u, t)) = {} THEN "false" ELSE "true", creds)

----------------------------------------------------------------------------
(* init *)

\* A backend constructor's error; to_string() yields its diagnostic text.
BackendError(text) == [kind |-> "backend", text |-> text]

to_string(e) == e.text

map_err_Generic(e) == [err |-> "PlatformError", msg |-> "backend error"]

\* .map_err(|e| crate::Error::PlatformError(e.to_string()))
map_err(e) == [err |-> "PlatformError", msg |-> to_string(e)]

\* keyring_core::set_default_store(store): the new store becomes the default.
set_default_store(current, store) == store

\* Store::new() ... ?; set_default_store(store); of one cfg block.
\* `ok` is whether the constructor succeeds, `e` its error otherwise.
desktop_store(kind, ok, e) ==
    IF ~ok
    THEN Outcome("Err", map_err(e).err, map_err(e).msg, {kind}, <<>>, FALSE)
    ELSE Outcome("Ok", NA, NA, {kind}, <<kind>>, TRUE)

desktop_init(ok, e) ==
    IF envMock
    THEN desktop_store("mock", ok, e)
    ELSE IF target \in NativeDesktop
    THEN desktop_store(target, ok, e)
    ELSE Outcome("Ok", NA, NA, {}, <<>>, TRUE)

mobile_init(ok, e, regOk) ==
    IF ~ok
    THEN Outcome("Err", map_err(e).err, map_err(e).msg, {target}, <<>>, FALSE)
    ELSE IF ~regOk
    THEN Outcome("Err", "PluginInvoke", NA, {target}, <<target>>, FALSE)
    ELSE Outcome("Ok", NA, NA, {target}, <<target>>, TRUE)

RECURSIVE Install(_, _)
Install(current, installed) ==
    IF installed = <<>>
    THEN current
    ELSE Install(set_default_store(current, Head(installed)), Tail(installed))

----------------------------------------------------------------------------
(* Keyring methods: delegation to KeyringImplementation *)

desktop_initialize_service(name) == Impl_initialize_service(name)
mobile_initialize_service(name) == Impl_initialize_service(name)

desktop_set_KeepFirst(u, t, v, f) ==
    IF Impl_exists(u, t, f).out = "true"
    THEN Result("Ok", NA, NA, creds)
    ELSE Impl_set(u, t, v, f)

desktop_set(u, t, v, f) == Impl_set(u, t, v, f)
mobile_set(u, t, v, f) == Impl_set(u, t, v, f)

desktop_get_FixedType(u, t, f) == Impl_get(u, "Password", f)

desktop_get(u, t, f) == Impl_get(u, t, f)
mobile_get(u, t, f) == Impl_get(u, t, f)

desktop_delete_Probe(u, t, f) ==
    IF Impl_exists(u, t, f).res = "Ok"
    THEN Result("Ok", NA, NA, creds)
    ELSE Impl_exists(u, t, f)

desktop_delete_Idempotent(u, t, f) ==
    IF Impl_delete(u, t, f).err = "NotFound"
    THEN Result("Ok", NA, NA, creds)
    ELSE Impl_delete(u, t, f)

desktop_delete(u, t, f) == Impl_delete(u, t, f)
mobile_delete(u, t, f) == Impl_delete(u, t, f)

desktop_exists_Remove(u, t, f) ==
    IF Impl_delete(u, t, f).res = "Err" /\ Impl_delete(u, t, f).err # "NotFound"
    THEN Impl_delete(u, t, f)
    ELSE Result("Ok", NA,
                IF Impl_delete(u, t, f).res = "Ok" THEN "true" ELSE "false",
                Impl_delete(u, t, f).creds)

desktop_exists(u, t, f) == Impl_exists(u, t, f)
mobile_exists(u, t, f) == Impl_exists(u, t, f)

\* cfg(desktop) / cfg(mobile): which of the two files the build contains.
IsMobile == target \in MobileTargets

KeyringGet(u, t, f) ==
    IF IsMobile THEN mobile_get(u, t, f) ELSE desktop_get(u, t, f)

KeyringExists(u, t, f) ==
    IF IsMobile THEN mobile_exists(u, t, f) ELSE desktop_exists(u, t, f)

----------------------------------------------------------------------------
(* The state machine *)

Init ==
    /\ target \in DesktopTargets \cup MobileTargets
    /\ envMock \in BOOLEAN
    /\ active = NONE
    /\ creds = {}
    /\ serviceName = NONE
    /\ haveHandle = FALSE
    /\ inits = 0
    /\ last = NoCall
    /\ hist = [i \in Identities |-> "never"]
    /\ stale = {}

CallInit(ok, e, regOk) ==
    /\ inits < MaxInits
    /\ LET o == IF IsMobile THEN mobile_init(ok, BackendError(e), regOk)
                ELSE desktop_init(ok, BackendError(e))
       IN /\ active' = Install(active, o.installed)
          /\ creds' = IF o.installed # <<>> /\ o.installed[Len(o.installed)] = "mock"
                      THEN {}
                      ELSE creds
          /\ haveHandle' = (haveHandle \/ o.handle)
          /\ stale' = IF o.installed # <<>>
                      THEN {i \in Identities : hist[i] \in CredentialValue}
                      ELSE stale
          /\ last' = [NoCall EXCEPT !.op = "init", !.res = o.res, !.err = o.err,
                                    !.msg = o.msg,
                                    !.constructed = o.constructed,
                                    !.installed = o.installed,
                                    !.handle = o.handle, !.ok = ok,
                                    !.diag = IF ok THEN NA ELSE e,
                                    !.before = active]
    /\ inits' = inits + 1
    /\ UNCHANGED <<target, envMock, serviceName, hist>>

CallInitializeService(name) ==
    /\ haveHandle
    /\ LET r == IF IsMobile THEN mobile_initialize_service(name)
                ELSE desktop_initialize_service(name)
       IN /\ serviceName' = r.name
          /\ last' = [NoCall EXCEPT !.op = "initialize_service", !.value = name,
                                    !.res = r.res, !.err = r.err,
                                    !.before = active]
    /\ UNCHANGED <<target, envMock, active, creds, haveHandle, inits, hist, stale>>

CallSet(u, t, v, f) ==
    /\ haveHandle
    /\ LET r == IF IsMobile THEN mobile_set(u, t, v, f) ELSE desktop_set(u, t, v, f)
       IN /\ creds' = r.creds
          /\ hist' = [hist EXCEPT ![<<u, t>>] = IF r.res = "Ok" THEN v ELSE @]
          /\ stale' = IF r.res = "Ok" THEN stale \ {<<u, t>>} ELSE stale
          /\ last' = [NoCall EXCEPT !.op = "set", !.user = u, !.type = t,
                                    !.value = v, !.res = r.res, !.err = r.err,
                                    !.out = r.out, !.before = active,
                                    !.prev = hist[<<u, t>>],
                                    !.ready = Ready, !.fault = Ready /\ f]
    /\ UNCHANGED <<target, envMock, active, serviceName, haveHandle, inits>>

CallGet(u, t, f) ==
    /\ haveHandle
    /\ LET r == KeyringGet(u, t, f)
       IN /\ creds' = r.creds
          /\ last' = [NoCall EXCEPT !.op = "get", !.user = u, !.type = t,
                                    !.res = r.res, !.err = r.err,
                                    !.out = r.out, !.before = active,
                                    !.ready = Ready, !.fault = Ready /\ f]
    /\ UNCHANGED <<target, envMock, active, serviceName, haveHandle, inits,
                   hist, stale>>

CallDelete(u, t, f) ==
    /\ haveHandle
    /\ LET r == IF IsMobile THEN mobile_delete(u, t, f) ELSE desktop_delete(u, t, f)
       IN /\ creds' = r.creds
          /\ hist' = [hist EXCEPT ![<<u, t>>] = IF r.res = "Ok" THEN "deleted" ELSE @]
          /\ stale' = IF r.res = "Ok" THEN stale \ {<<u, t>>} ELSE stale
          /\ last' = [NoCall EXCEPT !.op = "delete", !.user = u, !.type = t,
                                    !.res = r.res, !.err = r.err,
                                    !.out = r.out, !.before = active,
                                    !.ready = Ready, !.fault = Ready /\ f]
    /\ UNCHANGED <<target, envMock, active, serviceName, haveHandle, inits>>

CallExists(u, t, f) ==
    /\ haveHandle
    /\ LET r == KeyringExists(u, t, f)
       IN /\ creds' = r.creds
          /\ last' = [NoCall EXCEPT !.op = "exists", !.user = u, !.type = t,
                                    !.res = r.res, !.err = r.err,
                                    !.out = r.out, !.before = active,
                                    !.ready = Ready, !.fault = Ready /\ f]
    /\ UNCHANGED <<target, envMock, active, serviceName, haveHandle, inits,
                   hist, stale>>

Next ==
    \/ \E ok \in BOOLEAN, e \in Diagnostics, regOk \in BOOLEAN : CallInit(ok, e, regOk)
    \/ \E name \in ServiceNames : CallInitializeService(name)
    \/ \E u \in Users, t \in CredentialType, v \in CredentialValue, f \in BOOLEAN :
           CallSet(u, t, v, f)
    \/ \E u \in Users, t \in CredentialType, f \in BOOLEAN : CallGet(u, t, f)
    \/ \E u \in Users, t \in CredentialType, f \in BOOLEAN : CallDelete(u, t, f)
    \/ \E u \in Users, t \in CredentialType, f \in BOOLEAN : CallExists(u, t, f)

Spec == Init /\ [][Next]_vars

----------------------------------------------------------------------------
(* Properties *)

LastId == <<last.user, last.type>>

\* init selects a backend on this build: every build but a desktop one for a
\* target_os without a cfg block of its own and without KEYRING_USE_MOCK.
SelectsBackend == IsMobile \/ envMock \/ target \in NativeDesktop

\* C1 as stated: after a set(username, type, value) that succeeded, with no
\* later set or delete of that identity, get(username, type) returns Ok with
\* exactly that value.
C1_RoundTrip ==
    (last.op = "get" /\ hist[LastId] \in CredentialValue)
        => (last.res = "Ok" /\ last.out = hist[LastId])

\* C1 amended: after a set(username, type, value) that succeeded, with no
\* later set or delete of that identity, get(username, type) fails with
\* PlatformError when its backend call fails; otherwise it returns Ok with
\* exactly that value, or, only when a set_default_store call has replaced
\* the store since that set, fails with NotFound.  It never returns another
\* value.
C1_RoundTripOrError ==
    (last.op = "get" /\ hist[LastId] \in CredentialValue)
        => IF last.fault
           THEN last.res = "Err" /\ last.err = "PlatformError"
           ELSE \/ last.res = "Ok" /\ last.out = hist[LastId]
                \/ last.res = "Err" /\ last.err = "NotFound" /\ LastId \in stale

\* A get of an identity that was set returned its value, while another
\* identity holds a different value.
C1_Witness ==
    /\ last.op = "get"
    /\ hist[LastId] = "v2"
    /\ last.res = "Ok"
    /\ last.out = "v2"
    /\ \E i \in Identities : hist[i] = "v1"

\* C2 as stated: after a delete of an identity that succeeded and until the
\* next set of it, get fails with NotFound and exists returns false.
C2_Deletion ==
    /\ (last.op = "get" /\ hist[LastId] = "deleted")
           => (last.res = "Err" /\ last.err = "NotFound")
    /\ (last.op = "exists" /\ hist[LastId] = "deleted")
           => (last.res = "Ok" /\ last.out = "false")

\* C2 amended: after a delete of an identity that succeeded and until the
\* next set of it, get fails: with PlatformError when its backend call fails
\* and with NotFound otherwise; exists fails with PlatformError when its
\* backend call fails and returns false otherwise.  Neither returns a value
\* or true.
C2_DeletionOrError ==
    /\ (last.op = "get" /\ hist[LastId] = "deleted")
           => /\ last.res = "Err"
              /\ last.err = IF last.fault THEN "PlatformError" ELSE "NotFound"
    /\ (last.op = "exists" /\ hist[LastId] = "deleted")
           => IF last.fault
              THEN last.res = "Err" /\ last.err = "PlatformError"
              ELSE last.res = "Ok" /\ last.out = "false"
    /\ \A i \in Identities :
           hist[i] = "deleted"
               => /\ KeyringGet(i[1], i[2], FALSE).err = "NotFound"
                  /\ KeyringGet(i[1], i[2], TRUE).err = "PlatformError"
                  /\ KeyringExists(i[1], i[2], FALSE).res = "Ok"
                  /\ KeyringExists(i[1], i[2], FALSE).out = "false"
                  /\ KeyringExists(i[1], i[2], TRUE).err = "PlatformError"

\* A get of a deleted identity failed with NotFound while another identity
\* is stored.
C2_Witness ==
    /\ last.op = "get"
    /\ hist[LastId] = "deleted"
    /\ last.err = "NotFound"
    /\ creds # {}

\* C3: overwrite. Every identity has at most one stored value, and right after
\* a set that succeeded the identity's only stored value, and the one get
\* returns, is the value of that set, whatever was stored before.
C3_Overwrite ==
    /\ \A u \in Users, t \in CredentialType :
           Cardinality({e \in creds : e.key = make_key(u, t)}) <= 1
    /\ (last.op = "set" /\ last.res = "Ok")
           => /\ Stored(make_key(last.user, last.type)) = {last.value}
              /\ KeyringGet(last.user, last.type, FALSE).res = "Ok"
              /\ KeyringGet(last.user, last.type, FALSE).out = last.value

\* A set succeeded on an identity that held the other value.
C3_Witness ==
    /\ last.op = "set"
    /\ last.res = "Ok"
    /\ last.prev = "v1"
    /\ last.value = "v2"

\* C4 as stated: for an identity never set or deleted since its last set,
\* get and delete fail with NotFound and exists returns false, and none of
\* the three calls changes a stored entry.
C4_Absent ==
    [][\A u \in Users, t \in CredentialType, f \in BOOLEAN :
          hist[<<u, t>>] \in {"never", "deleted"}
              => /\ CallGet(u, t, f)
                     => /\ creds' = creds
                        /\ last'.res = "Err" /\ last'.err = "NotFound"
                 /\ CallDelete(u, t, f)
                     => /\ creds' = creds
                        /\ last'.res = "Err" /\ last'.err = "NotFound"
                 /\ CallExists(u, t, f)
                     => /\ creds' = creds
                        /\ last'.res = "Ok" /\ last'.out = "false"]_vars

\* C4 amended: for an identity never set or deleted since its last set, get
\* and delete always fail and exists never returns true, and none of the
\* three calls changes a stored entry.  With a backend installed and the
\* service initialised, get and delete fail with NotFound and exists returns
\* false, unless the backend call fails: then all three fail with
\* PlatformError.
C4_AbsentOrError ==
    [][\A u \in Users, t \in CredentialType, f \in BOOLEAN :
          hist[<<u, t>>] \in {"never", "deleted"}
              => /\ CallGet(u, t, f)
                     => /\ creds' = creds
                        /\ last'.res = "Err"
                        /\ (Ready /\ ~f) => last'.err = "NotFound"
                        /\ (Ready /\ f) => last'.err = "PlatformError"
                 /\ CallDelete(u, t, f)
                     => /\ creds' = creds
                        /\ last'.res = "Err"
                        /\ (Ready /\ ~f) => last'.err = "NotFound"
                        /\ (Ready /\ f) => last'.err = "PlatformError"
                 /\ CallExists(u, t, f)
                     => /\ creds' = creds
                        /\ ~(last'.res = "Ok" /\ last'.out = "true")
                        /\ (Ready /\ ~f) => (last'.res = "Ok" /\ last'.out = "false")
                        /\ (Ready /\ f)
                               => (last'.res = "Err" /\ last'.err = "PlatformError")]_vars

\* A delete of an identity deleted before failed with NotFound while another
\* identity is stored.
C4_Witness ==
    /\ last.op = "delete"
    /\ hist[LastId] = "deleted"
    /\ last.err = "NotFound"
    /\ creds # {}

\* C5: exists is read-only. A call of exists, whatever it returns, leaves the
\* stored entries, the service name and the installed backend unchanged, and
\* what get returns for every identity is the same after it as before.
C5_ExistsPure ==
    [][\A u \in Users, t \in CredentialType, f \in BOOLEAN :
          CallExists(u, t, f)
              => /\ UNCHANGED <<creds, serviceName, active>>
                 /\ \A i \in Identities, g \in BOOLEAN :
                        KeyringGet(i[1], i[2], g)' = KeyringGet(i[1], i[2], g)]_vars

\* exists answered true for a stored identity, and false for an absent one.
C5_Witness ==
    /\ last.op = "exists"
    /\ last.out = "true"
    /\ \E i \in Identities : hist[i] = "never"

\* C6: with KEYRING_USE_MOCK present, an init call constructs no backend but
\* the mock one, and installs the mock one when it returns Ok.
C6_MockIsolation ==
    (last.op = "init" /\ envMock)
        => /\ last.constructed \subseteq {"mock"}
           /\ last.res = "Ok" => last.installed = <<"mock">>

\* C7: an init call made when a backend is already installed fails, and a
\* set, get, delete or exists call made with no backend installed fails.
C7_SetOnce ==
    /\ (last.op = "init" /\ last.before # NONE) => last.res = "Err"
    /\ (last.op \in {"set", "get", "delete", "exists"} /\ last.before = NONE)
           => last.res = "Err"

\* C8: when the constructor of the backend init selects fails, init returns
\* PlatformError with the constructor's diagnostic text, has constructed that
\* one backend only, has installed none and returns no Keyring handle.
C8_ConstructionFailure ==
    (last.op = "init" /\ ~last.ok /\ SelectsBackend)
        => /\ last.res = "Err"
           /\ last.err = "PlatformError"
           /\ last.msg = last.diag
           /\ Cardinality(last.constructed) = 1
           /\ last.installed = <<>>
           /\ ~last.handle
           /\ active = last.before

\* init failed on a backend constructor's error.
C8_Witness ==
    /\ last.op = "init"
    /\ ~last.ok
    /\ last.err = "PlatformError"
    /\ last.msg = "no ndk context"

\* C9: an init call that returned an error has installed no backend.
C9_FailedInitInstallsNothing ==
    (last.op = "init" /\ last.res = "Err")
        => (last.installed = <<>> /\ active = last.before)

\* C10: an init call that returned Ok has installed exactly one backend.
C10_OkInstallsOnce ==
    (last.op = "init" /\ last.res = "Ok") => Len(last.installed) = 1

====
